---- MODULE Spec2Model ----
(***************************************************************************)
(* Model of trainer.py (FMix training script).  The script is a straight   *)
(* line of statements; every statement (or group of statements between two *)
(* blank lines of the source) is one action, selected by pc.  Objects the  *)
(* script constructs live in heap, and the script's names hold heap ids,   *)
(* so that "the same instance" is equality of ids.  calls is the sequence  *)
(* of calls the script makes into argparse, torch and torchbearer, in the  *)
(* order it makes them.                                                    *)
(*                                                                         *)
(* Arguments that no statement after parse_args reads in this file are not *)
(* carried in args (dataset_path, split_fraction, auto_augment, augment,   *)
(* fold_path, n_folds, fold, model); seed, parallel, dataset, batch_size,  *)
(* train_steps, verbose, log_dir, run_id, alpha, f_decay, t_alpha and      *)
(* reformulate are held at their defaults.                                 *)
(***************************************************************************)
EXTENDS Integers, Sequences, FiniteSets, TLC

VARIABLES pc, args, heap, calls, trainloader, valloader, testloader, net,
          optimizer, tboard, tboardtext, write_params, modes, cb, criterion,
          trial, state

\* pc           the statement of the script that runs next
\* args         the namespace of line 67 (None before it)
\* heap         the objects constructed so far; an object's id is its index
\* calls        the calls made so far, in order
\* trainloader, valloader, testloader, net, optimizer, tboard, tboardtext,
\* write_params, criterion, trial, state
\*              the script's names, each the id of its object (0: unbound)
\* modes        the dictionary of lines 107-116, key -> id
\* cb           the list of lines 118-124, a sequence of ids
vars == <<pc, args, heap, calls, trainloader, valloader, testloader, net,
          optimizer, tboard, tboardtext, write_params, modes, cb, criterion,
          trial, state>>

(* ------------------------------ bounds --------------------------------- *)

MaxEpoch == 2

(* ------------------------- python values ------------------------------- *)

\* Python None, as the value of an argument or of an unbound name.
None == "<None>"

\* Values ast.literal_eval yields for the flag arguments, by their literal.
FlagLiterals == {"False", "True", "0", "1"}

\* bool(v) of a literal of FlagLiterals, as `if v` / `v if c else w` tests it.
Truthy(v) == v \in {"True", "1"}

\* choices= of --msda-mode
MsdaChoices == {"fmix", "cutmix", "mixup", "alt_mixup_fmix",
                "alt_mixup_cutmix", "alt_fmix_cutmix"}

\* a Python list of ints and a Python str, told apart by their type
PyList(s) == [type |-> "list", v |-> s]

PyStr(s) == [type |-> "str", v |-> s]

\* values of --schedule (nargs='+' ints); the first is the default
Schedules == {PyList(<<100, 150>>), PyList(<<1>>)}

Digit(d) == CASE d = 0 -> "0" [] d = 1 -> "1" [] d = 2 -> "2" [] d = 3 -> "3"
              [] d = 4 -> "4" [] d = 5 -> "5" [] d = 6 -> "6" [] d = 7 -> "7"
              [] d = 8 -> "8" [] d = 9 -> "9"

RECURSIVE IntStr(_)
IntStr(n) == IF n < 10 THEN Digit(n) ELSE IntStr(n \div 10) \o Digit(n % 10)

RECURSIVE Joined(_)
Joined(s) == IF Len(s) = 0 THEN ""
             ELSE IF Len(s) = 1 THEN IntStr(s[1])
             ELSE IntStr(s[1]) \o ", " \o Joined(Tail(s))

\* str(list of ints)
ListStr(s) == "[" \o Joined(s) \o "]"

\* str(x) of a list of ints or of a str (a str is its own str)
Str(x) == IF x.type = "str" THEN x ELSE PyStr(ListStr(x.v))

(* --------------------------- arguments --------------------------------- *)

\* the namespaces parser.parse_args() can return
ArgSpace ==
    [ epoch            : 1..MaxEpoch,
      lr               : {"0.1"},
      lr_warmup        : FlagLiterals,
      reload           : FlagLiterals,
      verbose          : {2},
      random_erase     : FlagLiterals,
      cutout           : FlagLiterals,
      msda_mode        : MsdaChoices \cup {None},
      alpha            : {"1.0"},
      f_decay          : {"3.0"},
      cutout_l         : {16},
      reformulate      : {"False"},
      schedule         : Schedules,
      cosine_scheduler : FlagLiterals,
      model_file       : {"./saved_models/model.pt"},
      log_dir          : {"./logs/testing"} ]

(* ---------------------------- objects ---------------------------------- *)

Event(op) == [op |-> op]

\* id the next constructed object gets
NewId(h) == Len(h) + 1

DataLoader(dataset) == [cls |-> "DataLoader", dataset |-> dataset]

FMix(decay_power, alpha, reformulate) ==
    [cls |-> "FMix", decay_power |-> decay_power, alpha |-> alpha,
     max_soft |-> 0, reformulate |-> reformulate]

RMixup(alpha, reformulate) ==
    [cls |-> "RMixup", alpha |-> alpha, reformulate |-> reformulate]

CutMix(alpha) == [cls |-> "CutMix", alpha |-> alpha]

MSDAAlternator(a, b) == [cls |-> "MSDAAlternator", msda_1 |-> a, msda_2 |-> b]

Cutout(n_holes, length) ==
    [cls |-> "Cutout", n_holes |-> n_holes, length |-> length]

RandomErase(n_holes, length) ==
    [cls |-> "RandomErase", n_holes |-> n_holes, length |-> length]

MultiStepLR(milestones) == [cls |-> "MultiStepLR", milestones |-> milestones]

CosineAnnealingLR(T_max) ==
    [cls |-> "CosineAnnealingLR", T_max |-> T_max, eta_min |-> 0]

WarmupLR(min_lr, max_lr) ==
    [cls |-> "WarmupLR", min_lr |-> min_lr, max_lr |-> max_lr]

MostRecent(filepath) == [cls |-> "MostRecent", filepath |-> filepath]

(* ------------------------------ Init ----------------------------------- *)

Init ==
    /\ pc = "parse_args"
    /\ args = None
    /\ heap = <<>>
    /\ calls = <<>>
    /\ trainloader = 0 /\ valloader = 0 /\ testloader = 0
    /\ net = 0 /\ optimizer = 0
    /\ tboard = 0 /\ tboardtext = 0 /\ write_params = 0
    /\ modes = <<>>
    /\ cb = <<>>
    /\ criterion = 0
    /\ trial = 0
    /\ state = 0

\* args = parser.parse_args()
ParseArgs ==
    /\ pc = "parse_args"
    /\ \E a \in ArgSpace : args' = a
    /\ calls' = Append(calls, Event("parse_args"))
    /\ pc' = "data"
    /\ UNCHANGED <<heap, trainloader, valloader, testloader, net, optimizer,
                   tboard, tboardtext, write_params, modes, cb, criterion,
                   trial, state>>

\* '==> Preparing data..' and the three DataLoaders
PrepareData ==
    /\ pc = "data"
    /\ heap' = heap \o <<DataLoader("trainset"), DataLoader("valset"),
                         DataLoader("testset")>>
    /\ trainloader' = NewId(heap)
    /\ valloader' = NewId(heap) + 1
    /\ testloader' = NewId(heap) + 2
    /\ calls' = calls \o <<Event("print ==> Preparing data.."),
                           Event("DataLoader"), Event("DataLoader"),
                           Event("DataLoader")>>
    /\ pc' = "model"
    /\ UNCHANGED <<args, net, optimizer, tboard, tboardtext, write_params,
                   modes, cb, criterion, trial, state>>

\* '==> Building model..', net and optimizer (args.parallel is False)
BuildModel ==
    /\ pc = "model"
    /\ heap' = heap \o <<[cls |-> "Net"],
                         [cls |-> "SGD", params |-> NewId(heap),
                          lr |-> args.lr]>>
    /\ net' = NewId(heap)
    /\ optimizer' = NewId(heap) + 1
    /\ calls' = calls \o <<Event("print ==> Building model.."),
                           Event("get_model"), Event("SGD")>>
    /\ pc' = "tboard"
    /\ UNCHANGED <<args, trainloader, valloader, testloader, tboard,
                   tboardtext, write_params, modes, cb, criterion, trial,
                   state>>

\* '==> Setting up callbacks..', tboard and tboardtext
SetupCallbacks ==
    /\ pc = "tboard"
    /\ heap' = heap \o <<[cls |-> "TensorBoard", write_graph |-> FALSE,
                          log_dir |-> args.log_dir],
                         [cls |-> "TensorBoardText",
                          write_epoch_metrics |-> FALSE,
                          log_dir |-> args.log_dir]>>
    /\ tboard' = NewId(heap)
    /\ tboardtext' = NewId(heap) + 1
    /\ calls' = calls \o <<Event("print ==> Setting up callbacks.."),
                           Event("TensorBoard"), Event("TensorBoardText")>>
    /\ pc' = "def_write_params"
    /\ UNCHANGED <<args, trainloader, valloader, testloader, net, optimizer,
                   write_params, modes, cb, criterion, trial, state>>

\* @torchbearer.callbacks.on_start def write_params(_): the decorator binds
\* the name to a callback object that runs the function at the start of a run
DefWriteParams ==
    /\ pc = "def_write_params"
    /\ heap' = Append(heap, [cls |-> "on_start", func |-> "write_params"])
    /\ write_params' = NewId(heap)
    /\ calls' = Append(calls, Event("on_start"))
    /\ pc' = "modes"
    /\ UNCHANGED <<args, trainloader, valloader, testloader, net, optimizer,
                   tboard, tboardtext, modes, cb, criterion, trial, state>>

\* the body of write_params: params = vars(args) is args' own dictionary, so
\* params['schedule'] = str(params['schedule']) rebinds args.schedule
WriteParamsBody(a) == [a EXCEPT !.schedule = Str(@)]

\* args after a method of the trial has returned.  Whether the method calls
\* the on_start callbacks of the trial's callback list is the library's
\* choice, not this file's: fires ranges over both outcomes.  write_params
\* runs only if it is one of the trial's callbacks.
AfterTrialMethod(a, fires) ==
    IF fires /\ \E i \in 1..Len(heap[trial].callbacks) :
                    heap[trial].callbacks[i] = write_params
      THEN WriteParamsBody(a) ELSE a

\* modes = {'fmix': FMix(...), 'mixup': RMixup(...), 'cutmix': CutMix(...)}
BuildModes ==
    /\ pc = "modes"
    /\ heap' = heap \o <<FMix(args.f_decay, args.alpha, args.reformulate),
                         RMixup(args.alpha, args.reformulate),
                         CutMix(args.alpha)>>
    /\ modes' = ("fmix" :> NewId(heap)) @@ ("mixup" :> NewId(heap) + 1)
                    @@ ("cutmix" :> NewId(heap) + 2)
    /\ calls' = calls \o <<Event("FMix"), Event("RMixup"), Event("CutMix")>>
    /\ pc' = "modes_update"
    /\ UNCHANGED <<args, trainloader, valloader, testloader, net, optimizer,
                   tboard, tboardtext, write_params, cb, criterion, trial,
                   state>>

\* Alternators with the second pair copied from the third
AlternatorsCopied(m) ==
    <<MSDAAlternator(m["fmix"], m["mixup"]),
      MSDAAlternator(m["fmix"], m["cutmix"]),
      MSDAAlternator(m["fmix"], m["cutmix"])>>

\* the three MSDAAlternator(...) expressions of modes.update, in order
Alternators(m) ==
    <<MSDAAlternator(m["fmix"], m["mixup"]),
      MSDAAlternator(m["mixup"], m["cutmix"]),
      MSDAAlternator(m["fmix"], m["cutmix"])>>

\* AlternatorKeys with the last key's two names the other way round
AlternatorKeysTypo == <<"alt_mixup_fmix", "alt_mixup_cutmix", "alt_cutmix_fmix">>

\* the keys of modes.update, in order
AlternatorKeys == <<"alt_mixup_fmix", "alt_mixup_cutmix", "alt_fmix_cutmix">>

\* modes.update({...})
UpdateModes ==
    /\ pc = "modes_update"
    /\ heap' = heap \o Alternators(modes)
    /\ modes' = [k \in {AlternatorKeys[i] : i \in 1..Len(AlternatorKeys)} |->
                   CHOOSE id \in NewId(heap)..(Len(heap) + Len(AlternatorKeys)) :
                       AlternatorKeys[id - Len(heap)] = k] @@ modes
    /\ calls' = calls \o [i \in 1..Len(AlternatorKeys) |->
                             Event("MSDAAlternator")]
    /\ pc' = "cb"
    /\ UNCHANGED <<args, trainloader, valloader, testloader, net, optimizer,
                   tboard, tboardtext, write_params, cb, criterion, trial,
                   state>>

\* CbBase with write_params listed after MostRecent
CbBaseReordered ==
    /\ pc = "cb"
    /\ heap' = Append(heap, MostRecent(args.model_file))
    /\ cb' = <<tboard, tboardtext, NewId(heap), write_params>>
    /\ calls' = Append(calls, Event("MostRecent"))
    /\ pc' = "cb_msda"
    /\ UNCHANGED <<args, trainloader, valloader, testloader, net, optimizer,
                   tboard, tboardtext, write_params, modes, criterion, trial,
                   state>>

\* cb = [tboard, tboardtext, write_params, MostRecent(args.model_file)]
CbBase ==
    /\ pc = "cb"
    /\ heap' = Append(heap, MostRecent(args.model_file))
    /\ cb' = <<tboard, tboardtext, write_params, NewId(heap)>>
    /\ calls' = Append(calls, Event("MostRecent"))
    /\ pc' = "cb_msda"
    /\ UNCHANGED <<args, trainloader, valloader, testloader, net, optimizer,
                   tboard, tboardtext, write_params, modes, criterion, trial,
                   state>>

\* cb.append(modes[args.msda_mode]) if args.msda_mode is not None else []
\* (a key modes lacks raises KeyError and ends the script)
CbMsda ==
    /\ pc = "cb_msda"
    /\ IF args.msda_mode = None
         THEN cb' = cb /\ pc' = "cb_cutout"
         ELSE IF args.msda_mode \in DOMAIN modes
                THEN cb' = Append(cb, modes[args.msda_mode])
                     /\ pc' = "cb_cutout"
                ELSE cb' = cb /\ pc' = "KeyError"
    /\ UNCHANGED <<args, heap, calls, trainloader, valloader, testloader, net,
                   optimizer, tboard, tboardtext, write_params, modes,
                   criterion, trial, state>>

\* cb.append(Cutout(1, args.cutout_l)) if args.cutout else []
CbCutout ==
    /\ pc = "cb_cutout"
    /\ IF Truthy(args.cutout)
         THEN /\ heap' = Append(heap, Cutout(1, args.cutout_l))
              /\ cb' = Append(cb, NewId(heap))
              /\ calls' = Append(calls, Event("Cutout"))
         ELSE UNCHANGED <<heap, cb, calls>>
    /\ pc' = "cb_random_erase"
    /\ UNCHANGED <<args, trainloader, valloader, testloader, net, optimizer,
                   tboard, tboardtext, write_params, modes, criterion, trial,
                   state>>

\* CbRandomErase testing args.cutout, the flag of the line above it
CbRandomEraseOnCutout ==
    /\ pc = "cb_random_erase"
    /\ IF Truthy(args.cutout)
         THEN /\ heap' = Append(heap, RandomErase(1, args.cutout_l))
              /\ cb' = Append(cb, NewId(heap))
              /\ calls' = Append(calls, Event("RandomErase"))
         ELSE UNCHANGED <<heap, cb, calls>>
    /\ pc' = "cb_scheduler"
    /\ UNCHANGED <<args, trainloader, valloader, testloader, net, optimizer,
                   tboard, tboardtext, write_params, modes, criterion, trial,
                   state>>

\* cb.append(RandomErase(1, args.cutout_l)) if args.random_erase else []
CbRandomErase ==
    /\ pc = "cb_random_erase"
    /\ IF Truthy(args.random_erase)
         THEN /\ heap' = Append(heap, RandomErase(1, args.cutout_l))
              /\ cb' = Append(cb, NewId(heap))
              /\ calls' = Append(calls, Event("RandomErase"))
         ELSE UNCHANGED <<heap, cb, calls>>
    /\ pc' = "cb_scheduler"
    /\ UNCHANGED <<args, trainloader, valloader, testloader, net, optimizer,
                   tboard, tboardtext, write_params, modes, criterion, trial,
                   state>>

\* Scheduler with the `not` of its condition dropped
SchedulerNotDropped(a) ==
    IF Truthy(a.cosine_scheduler) THEN MultiStepLR(a.schedule)
    ELSE CosineAnnealingLR(a.epoch)

\* cb.append(MultiStepLR(args.schedule)) if not args.cosine_scheduler
\*     else cb.append(CosineAnnealingLR(args.epoch, eta_min=0.))
Scheduler(a) ==
    IF ~Truthy(a.cosine_scheduler) THEN MultiStepLR(a.schedule)
    ELSE CosineAnnealingLR(a.epoch)

CbScheduler ==
    /\ pc = "cb_scheduler"
    /\ heap' = Append(heap, Scheduler(args))
    /\ cb' = Append(cb, NewId(heap))
    /\ calls' = Append(calls, Event(Scheduler(args).cls))
    /\ pc' = "cb_warmup"
    /\ UNCHANGED <<args, trainloader, valloader, testloader, net, optimizer,
                   tboard, tboardtext, write_params, modes, criterion, trial,
                   state>>

\* cb.append(WarmupLR(0.1, args.lr)) if args.lr_warmup else []
CbWarmup ==
    /\ pc = "cb_warmup"
    /\ IF Truthy(args.lr_warmup)
         THEN /\ heap' = Append(heap, WarmupLR("0.1", args.lr))
              /\ cb' = Append(cb, NewId(heap))
              /\ calls' = Append(calls, Event("WarmupLR"))
         ELSE UNCHANGED <<heap, cb, calls>>
    /\ pc' = "criterion"
    /\ UNCHANGED <<args, trainloader, valloader, testloader, net, optimizer,
                   tboard, tboardtext, write_params, modes, criterion, trial,
                   state>>

\* Criterion taking the FMix loss for the fmix mode only
CriterionFmixOnly(a, m) ==
    IF a.msda_mode = "fmix" THEN [cls |-> "FMix.loss", self |-> m["fmix"]]
    ELSE [cls |-> "CrossEntropyLoss"]

\* modes['fmix'].loss() if args.msda_mode is not None else nn.CrossEntropyLoss()
Criterion(a, m) ==
    IF a.msda_mode # None THEN [cls |-> "FMix.loss", self |-> m["fmix"]]
    ELSE [cls |-> "CrossEntropyLoss"]

SetCriterion ==
    /\ pc = "criterion"
    /\ heap' = Append(heap, Criterion(args, modes))
    /\ criterion' = NewId(heap)
    /\ calls' = Append(calls, Event(Criterion(args, modes).cls))
    /\ pc' = "trial"
    /\ UNCHANGED <<args, trainloader, valloader, testloader, net, optimizer,
                   tboard, tboardtext, write_params, modes, cb, trial, state>>

\* '==> Training model..', trial = Trial(...), trial.with_generators(...).to(device)
BuildTrial ==
    /\ pc = "trial"
    /\ heap' = Append(heap, [cls |-> "Trial", model |-> net,
                             optimizer |-> optimizer, criterion |-> criterion,
                             callbacks |-> cb,
                             train_generator |-> trainloader,
                             val_generator |-> valloader,
                             test_generator |-> testloader])
    /\ trial' = NewId(heap)
    /\ calls' = calls \o <<Event("print ==> Training model.."), Event("Trial"),
                           Event("trial.with_generators"), Event("trial.to")>>
    /\ pc' = "reload"
    /\ UNCHANGED <<args, trainloader, valloader, testloader, net, optimizer,
                   tboard, tboardtext, write_params, modes, cb, criterion,
                   state>>

\* ReloadTaken comparing the flag with True instead of testing it
ReloadTakenIsTrue(a) == a.reload = "True"

\* if args.reload:
ReloadTaken(a) == Truthy(a.reload)

\*     state = torch.load(args.model_file)
TorchLoad ==
    /\ pc = "reload"
    /\ ReloadTaken(args)
    /\ heap' = Append(heap, [cls |-> "state_dict", file |-> args.model_file])
    /\ state' = NewId(heap)
    /\ calls' = Append(calls, [op |-> "torch.load", f |-> args.model_file])
    /\ pc' = "load_state_dict"
    /\ UNCHANGED <<args, trainloader, valloader, testloader, net, optimizer,
                   tboard, tboardtext, write_params, modes, cb, criterion,
                   trial>>

\*     trial.load_state_dict(state)
LoadStateDict ==
    /\ pc = "load_state_dict"
    /\ calls' = Append(calls, [op |-> "trial.load_state_dict",
                               state_dict |-> state])
    /\ pc' = "replay"
    /\ UNCHANGED <<args, heap, trainloader, valloader, testloader, net,
                   optimizer, tboard, tboardtext, write_params, modes, cb,
                   criterion, trial, state>>

\*     trial.replay()
Replay ==
    /\ pc = "replay"
    /\ calls' = Append(calls, Event("trial.replay"))
    /\ \E fires \in BOOLEAN : args' = AfterTrialMethod(args, fires)
    /\ pc' = "run"
    /\ UNCHANGED <<heap, trainloader, valloader, testloader, net,
                   optimizer, tboard, tboardtext, write_params, modes, cb,
                   criterion, trial, state>>

\* args.reload is false: the if body is skipped
SkipReload ==
    /\ pc = "reload"
    /\ ~ReloadTaken(args)
    /\ pc' = "run"
    /\ UNCHANGED <<args, heap, calls, trainloader, valloader, testloader, net,
                   optimizer, tboard, tboardtext, write_params, modes, cb,
                   criterion, trial, state>>

\* RunCall leaving the epochs at trial.run's default
RunCallDefaultEpochs(a) == [op |-> "trial.run", epochs |-> 1,
                            verbose |-> a.verbose]

\* the call trial.run(args.epoch, verbose=args.verbose)
RunCall(a) == [op |-> "trial.run", epochs |-> a.epoch, verbose |-> a.verbose]

\* trial.run(...)
TrialRun ==
    /\ pc = "run"
    /\ calls' = Append(calls, RunCall(args))
    /\ \E fires \in BOOLEAN : args' = AfterTrialMethod(args, fires)
    /\ pc' = "evaluate"
    /\ UNCHANGED <<heap, trainloader, valloader, testloader, net, optimizer,
                   tboard, tboardtext, write_params, modes, cb, criterion,
                   trial, state>>

\* the call trial.evaluate(data_key=torchbearer.TEST_DATA)
EvaluateCall == [op |-> "trial.evaluate", data_key |-> "TEST_DATA"]

TrialEvaluate ==
    /\ pc = "evaluate"
    /\ calls' = Append(calls, EvaluateCall)
    /\ \E fires \in BOOLEAN : args' = AfterTrialMethod(args, fires)
    /\ pc' = "done"
    /\ UNCHANGED <<heap, trainloader, valloader, testloader, net,
                   optimizer, tboard, tboardtext, write_params, modes, cb,
                   criterion, trial, state>>

Next ==
    \/ ParseArgs \/ PrepareData \/ BuildModel \/ SetupCallbacks
    \/ DefWriteParams \/ BuildModes \/ UpdateModes
    \/ CbBase \/ CbMsda \/ CbCutout \/ CbRandomErase \/ CbScheduler \/ CbWarmup
    \/ SetCriterion \/ BuildTrial
    \/ TorchLoad \/ LoadStateDict \/ Replay \/ SkipReload
    \/ TrialRun \/ TrialEvaluate

Spec == Init /\ [][Next]_vars

(* ----------------------- reading the state ---------------------------- *)

Parsed == pc # "parse_args"

\* positions of the script at which cb is complete
CbBuilt == pc \in {"criterion", "trial", "reload", "load_state_dict",
                   "replay", "run", "evaluate", "done"}

\* positions at which modes holds all six entries
ModesBuilt == CbBuilt \/ pc \in {"cb", "cb_msda", "cb_cutout",
                                 "cb_random_erase", "cb_scheduler",
                                 "cb_warmup", "KeyError"}

\* positions at which criterion is bound
CriterionSet == pc \in {"trial", "reload", "load_state_dict", "replay",
                        "run", "evaluate", "done"}

\* positions after the if args.reload statement
ReloadPassed == pc \in {"run", "evaluate", "done"}

\* positions after trial.run has returned
RunReturned == pc \in {"evaluate", "done"}

CallsOf(ops) == {i \in 1..Len(calls) : calls[i].op \in ops}

MsdaClasses == {"FMix", "RMixup", "CutMix", "MSDAAlternator"}

SchedulerClasses == {"MultiStepLR", "CosineAnnealingLR"}

\* positions of cb holding a callback of one of the classes
CbOf(classes) == {i \in 1..Len(cb) : heap[cb[i]].cls \in classes}

\* the phase of the script a call belongs to; 0 for the progress prints
PhaseOf(op) ==
    CASE op = "parse_args" -> 1
      [] op = "DataLoader" -> 2
      [] op \in {"get_model", "SGD"} -> 3
      [] op \in {"TensorBoard", "TensorBoardText", "on_start", "MostRecent",
                 "Cutout", "RandomErase", "WarmupLR", "FMix.loss",
                 "CrossEntropyLoss"} \cup MsdaClasses \cup SchedulerClasses
           -> 4
      [] op \in {"Trial", "trial.with_generators", "trial.to", "torch.load",
                 "trial.load_state_dict", "trial.replay"} -> 5
      [] op = "trial.run" -> 6
      [] op = "trial.evaluate" -> 7
      [] OTHER -> 0

\* the rank of a callback class in the order the script registers them
RankOf(cls) ==
    CASE cls = "TensorBoard" -> 1
      [] cls = "TensorBoardText" -> 2
      [] cls = "on_start" -> 3
      [] cls = "MostRecent" -> 4
      [] cls \in MsdaClasses -> 5
      [] cls = "Cutout" -> 6
      [] cls = "RandomErase" -> 7
      [] cls \in SchedulerClasses -> 8
      [] cls = "WarmupLR" -> 9
      [] OTHER -> 0

\* the two single-mode keys an alternating mode's key names
NamedIn(k) ==
    CASE k = "alt_mixup_fmix" -> {"mixup", "fmix"}
      [] k = "alt_mixup_cutmix" -> {"mixup", "cutmix"}
      [] k = "alt_fmix_cutmix" -> {"fmix", "cutmix"}

(* ------------------------------ claims --------------------------------- *)

\* C1: the calls of the script are made in the order parse arguments, three
\* data loaders, model and optimizer, callbacks, Trial, trial.run,
\* trial.evaluate; trial.run is called at most once and only with args.epoch,
\* trial.evaluate at most once, on the test data and only after trial.run has
\* returned; and when the script ends every phase has happened, trial.run and
\* trial.evaluate exactly once each and DataLoader three times.
C1_PhaseOrder ==
    /\ LET P == SelectSeq([i \in 1..Len(calls) |-> PhaseOf(calls[i].op)],
                          LAMBDA ph : ph # 0)
       IN  \A i \in 1..(Len(P) - 1) : P[i] <= P[i + 1]
    /\ Cardinality(CallsOf({"trial.run"})) <= 1
    /\ Cardinality(CallsOf({"trial.evaluate"})) <= 1
    /\ \A i \in CallsOf({"trial.run"}) : calls[i].epochs = args.epoch
    /\ \A i \in CallsOf({"trial.evaluate"}) :
          /\ calls[i].data_key = "TEST_DATA"
          /\ RunReturned
          /\ \E j \in CallsOf({"trial.run"}) : j < i
    /\ pc = "done" =>
          /\ {PhaseOf(calls[i].op) : i \in 1..Len(calls)} \ {0} = 1..7
          /\ Cardinality(CallsOf({"trial.run"})) = 1
          /\ Cardinality(CallsOf({"trial.evaluate"})) = 1
          /\ Cardinality(CallsOf({"DataLoader"})) = 3
          /\ Cardinality(CallsOf({"Trial"})) = 1

\* C1 witness: a script run to its end with a non-default number of epochs
C1_Witness ==
    /\ pc = "done"
    /\ args.epoch = MaxEpoch
    /\ \E i \in CallsOf({"trial.run"}) : calls[i].epochs = MaxEpoch
    /\ CallsOf({"trial.evaluate"}) # {}

\* C2: with args.reload true the calls torch.load(args.model_file),
\* trial.load_state_dict(state) and trial.replay() are made once each, in
\* that order and before trial.run; with args.reload false none of them is
\* made; in both cases trial.run and trial.evaluate have been called when the
\* script ends.
C2_Reload ==
    LET R == SelectSeq(calls, LAMBDA e : e.op \in {"torch.load",
                          "trial.load_state_dict", "trial.replay"})
        Full == <<"torch.load", "trial.load_state_dict", "trial.replay">>
    IN  /\ Parsed /\ ~Truthy(args.reload) => R = <<>>
        /\ Parsed /\ Truthy(args.reload) =>
              /\ Len(R) <= Len(Full)
              /\ \A i \in 1..Len(R) : R[i].op = Full[i]
              /\ ReloadPassed => Len(R) = Len(Full)
              /\ \A i \in CallsOf({"torch.load"}) :
                    calls[i].f = args.model_file
              /\ \A i \in CallsOf({"trial.load_state_dict"}) :
                    /\ calls[i].state_dict = state
                    /\ heap[state].cls = "state_dict"
                    /\ heap[state].file = args.model_file
              /\ \A i \in CallsOf({"torch.load", "trial.load_state_dict",
                                    "trial.replay"}) :
                    \A j \in CallsOf({"trial.run"}) : i < j
        /\ pc = "done" => /\ CallsOf({"trial.run"}) # {}
                          /\ CallsOf({"trial.evaluate"}) # {}

\* C2 witness: a finished run that reloaded, its flag given as the literal 1
C2_Witness ==
    /\ pc = "done"
    /\ args.reload = "1"
    /\ CallsOf({"trial.replay"}) # {}

\* C3: the complete callback list holds exactly one learning-rate scheduler:
\* CosineAnnealingLR(args.epoch, eta_min=0) when args.cosine_scheduler is
\* true and MultiStepLR(args.schedule) when it is false (the list as parsed,
\* also after write_params, if the library has run it, has turned
\* args.schedule into that list's string); while the list is being built it
\* holds at most one.
C3_OneScheduler ==
    /\ Cardinality(CbOf(SchedulerClasses)) <= 1
    /\ CbBuilt =>
          /\ Cardinality(CbOf(SchedulerClasses)) = 1
          /\ \A i \in CbOf(SchedulerClasses) :
                IF Truthy(args.cosine_scheduler)
                  THEN /\ heap[cb[i]].cls = "CosineAnnealingLR"
                       /\ heap[cb[i]].T_max = args.epoch
                       /\ heap[cb[i]].eta_min = 0
                  ELSE /\ heap[cb[i]].cls = "MultiStepLR"
                       /\ heap[cb[i]].milestones \in Schedules
                       /\ IF args.schedule.type = "list"
                            THEN args.schedule = heap[cb[i]].milestones
                            ELSE args.schedule = Str(heap[cb[i]].milestones)

\* C3 witness: a complete list with the cosine scheduler in it
C3_Witness ==
    /\ CbBuilt
    /\ args.cosine_scheduler = "True"
    /\ \E i \in 1..Len(cb) : heap[cb[i]].cls = "CosineAnnealingLR"

\* C4: once bound, criterion is the loss of modes['fmix'] for every msda_mode
\* other than None and nn.CrossEntropyLoss for None; so it is the FMix loss
\* exactly when a mixed-sample augmentation is in the callback list.
C4_Criterion ==
    CriterionSet =>
        /\ args.msda_mode # None =>
              /\ heap[criterion].cls = "FMix.loss"
              /\ heap[criterion].self = modes["fmix"]
              /\ heap[modes["fmix"]].cls = "FMix"
        /\ args.msda_mode = None => heap[criterion].cls = "CrossEntropyLoss"
        /\ heap[criterion].cls = "FMix.loss" <=> CbOf(MsdaClasses) # {}

\* C4 witness: the criterion bound under a mode other than fmix
C4_Witness ==
    /\ CriterionSet
    /\ args.msda_mode = "cutmix"
    /\ heap[criterion].cls = "FMix.loss"

\* C5: once modes is complete every choice of --msda-mode is a key of it and
\* the lookup never raises KeyError; after the lookup the callback list holds
\* exactly one mixed-sample augmentation, the object modes has under
\* args.msda_mode, and none when args.msda_mode is None.
C5_MsdaLookup ==
    /\ pc # "KeyError"
    /\ ModesBuilt => MsdaChoices \subseteq DOMAIN modes
    /\ (pc = "cb_cutout" \/ CbBuilt \/ pc \in {"cb_random_erase",
                                               "cb_scheduler", "cb_warmup"}) =>
          IF args.msda_mode = None
            THEN CbOf(MsdaClasses) = {}
            ELSE /\ Cardinality(CbOf(MsdaClasses)) = 1
                 /\ \A i \in CbOf(MsdaClasses) : cb[i] = modes[args.msda_mode]

\* C5 witness: the list after the lookup of an alternating mode
C5_Witness ==
    /\ pc = "cb_cutout"
    /\ args.msda_mode = "alt_fmix_cutmix"
    /\ cb[Len(cb)] = modes["alt_fmix_cutmix"]

\* C6: the complete callback list starts with tboard, tboardtext,
\* write_params and MostRecent(args.model_file), each in it once, and holds
\* Cutout(1, args.cutout_l) once if args.cutout and not at all otherwise,
\* likewise RandomErase(1, args.cutout_l) for args.random_erase and
\* WarmupLR(0.1, args.lr) for args.lr_warmup.
C6_BaseAndOptional ==
    CbBuilt =>
        /\ Len(cb) >= 4
        /\ cb[1] = tboard /\ heap[cb[1]].cls = "TensorBoard"
        /\ cb[2] = tboardtext /\ heap[cb[2]].cls = "TensorBoardText"
        /\ cb[3] = write_params /\ heap[cb[3]].cls = "on_start"
        /\ heap[cb[4]].cls = "MostRecent"
        /\ heap[cb[4]].filepath = args.model_file
        /\ \A c \in {"TensorBoard", "TensorBoardText", "on_start",
                     "MostRecent"} : Cardinality(CbOf({c})) = 1
        /\ Cardinality(CbOf({"Cutout"})) = IF Truthy(args.cutout) THEN 1 ELSE 0
        /\ Cardinality(CbOf({"RandomErase"})) =
              IF Truthy(args.random_erase) THEN 1 ELSE 0
        /\ Cardinality(CbOf({"WarmupLR"})) =
              IF Truthy(args.lr_warmup) THEN 1 ELSE 0
        /\ \A i \in CbOf({"Cutout", "RandomErase"}) :
              heap[cb[i]].n_holes = 1 /\ heap[cb[i]].length = args.cutout_l
        /\ \A i \in CbOf({"WarmupLR"}) :
              heap[cb[i]].min_lr = "0.1" /\ heap[cb[i]].max_lr = args.lr

\* C6 witness: a complete list with RandomErase and WarmupLR but no Cutout
C6_Witness ==
    /\ CbBuilt
    /\ ~Truthy(args.cutout)
    /\ CbOf({"RandomErase"}) # {} /\ CbOf({"WarmupLR"}) # {}
    /\ CbOf({"Cutout"}) = {}

\* C7: each alternating entry of modes is an MSDAAlternator whose two members
\* are the objects modes holds under the two single-mode keys its key names,
\* and those are the FMix, RMixup and CutMix objects of the first three
\* entries.
C7_Alternators ==
    ModesBuilt =>
        /\ heap[modes["fmix"]].cls = "FMix"
        /\ heap[modes["mixup"]].cls = "RMixup"
        /\ heap[modes["cutmix"]].cls = "CutMix"
        /\ \A k \in {"alt_mixup_fmix", "alt_mixup_cutmix", "alt_fmix_cutmix"} :
              /\ k \in DOMAIN modes
              /\ heap[modes[k]].cls = "MSDAAlternator"
              /\ {heap[modes[k]].msda_1, heap[modes[k]].msda_2}
                    = {modes[n] : n \in NamedIn(k)}

\* C7 witness: modes complete, alt_mixup_cutmix over the mixup and cutmix
\* objects
C7_Witness ==
    /\ pc = "cb"
    /\ heap[modes["alt_mixup_cutmix"]].msda_1 = modes["mixup"]
    /\ heap[modes["alt_mixup_cutmix"]].msda_2 = modes["cutmix"]

\* C8: the callbacks stand in the list in the order TensorBoard,
\* TensorBoardText, write_params, MostRecent, mixed-sample augmentation,
\* Cutout, RandomErase, scheduler, WarmupLR, at every point of building the
\* list and after.
C8_Order ==
    /\ \A i \in 1..Len(cb) : RankOf(heap[cb[i]].cls) # 0
    /\ \A i, j \in 1..Len(cb) :
          i < j => RankOf(heap[cb[i]].cls) < RankOf(heap[cb[j]].cls)

\* C8 witness: a complete list holding all nine kinds of callback
C8_Witness ==
    /\ CbBuilt
    /\ Len(cb) = 9
    /\ heap[cb[5]].cls = "MSDAAlternator"
    /\ heap[cb[8]].cls = "MultiStepLR"
    /\ heap[cb[9]].cls = "WarmupLR"

====
